---- MODULE Spec2Model ----
(***************************************************************************)
(* Model of steam-auth (src/src/main.rs): the command line is parsed, the  *)
(* Steam client is initialised, a callback stores the web-API ticket in a  *)
(* shared slot, the acquisition loop pumps the callbacks at most 100 times *)
(* and dispatches the ticket (POST or file), and the session is then held  *)
(* open until a line arrives on standard input.                            *)
(***************************************************************************)
EXTENDS Integers, Sequences, FiniteSets, TLC

\* ---- bounds of the model ----
MaxTicketLen == 1      \* longest ticket the provider delivers
MaxPerPump == 2        \* most callbacks one run_callbacks() delivers

\* ---- program constants ----
MaxAttempts == 100     \* main.rs:121  attempts < 100
SleepMillis == 100     \* main.rs:149  Duration::from_millis(100)
StatusOk == 200        \* main.rs:187  response.status() == 200
PanicExitCode == 101   \* exit status of a Rust process whose main panics
UsageExitCode == 2     \* exit status of clap's usage error

TicketBytes == {10}
Editions == {2021, 2024}
Statuses == {200, 201, 500}

VARIABLES
    argv,            \* flags given on the command line
    args,            \* Args produced by Args::parse
    pc,              \* position of the main task
    handler,         \* the callback is registered with the client
    ticket_data,     \* Arc<Mutex<Option<Vec<u8>>>>
    ticket_received, \* local of main
    attempts,        \* local of main
    reader,          \* the stdin thread: "none", "waiting", "panicked"
    exit_code,       \* -1 while the process runs
    exit_via,        \* how the process ended
    file,            \* content of args.output_file, or Absent
    sent,            \* the POST requests sent, in order
    post_response,   \* what the server answered
    write_outcome,   \* outcome of write_ticket_to_file
    reported,        \* diagnostics on stderr
    printed,         \* messages on stdout
    requests,        \* ticket requests issued
    iters,           \* pumps done by the acquisition loop
    sleeps,          \* suspensions done by the acquisition loop
    slept_ms,        \* time the acquisition loop spent suspended
    file_writes,     \* calls of write_ticket_to_file
    loop_success,    \* a success was delivered by a pump of the acquisition loop
    tail_entered,    \* the session tail was entered
    tail_pumped,     \* the session tail pumped the provider
    edition,         \* Rust edition of the build: decides when the guard of `if let` drops
    guard,           \* the main task holds the MutexGuard of ticket_data
    last_pump_ok,    \* the last run_callbacks() delivered a success
    first_success,   \* ticket of the first success delivered in the run
    checks           \* slot checks done by the acquisition loop

vars == <<argv, args, pc, handler, ticket_data, ticket_received, attempts,
          reader, exit_code, exit_via, file, sent, post_response,
          write_outcome, reported, printed, requests, iters, sleeps,
          slept_ms, file_writes, loop_success, tail_entered, tail_pumped,
          edition, guard, last_pump_ok, first_success, checks>>

\* ---- values ----
None == [tag |-> "None"]
Some(t) == [tag |-> "Some", val |-> t]
Absent == [tag |-> "Absent"]
Content(s) == [tag |-> "File", text |-> s]
NoArgs == [tag |-> "NoArgs"]

RECURSIVE SeqsUpTo(_, _)
SeqsUpTo(S, n) ==
    IF n = 0 THEN {<<>>}
    ELSE LET shorter == SeqsUpTo(S, n - 1)
         IN shorter \cup {Append(s, x) : s \in {q \in shorter : Len(q) = n - 1}, x \in S}

Tickets == SeqsUpTo(TicketBytes, MaxTicketLen)

\* TicketForWebApiResponse: result and ticket
Responses ==
    {[result |-> "Ok", ticket |-> t] : t \in Tickets}
        \cup {[result |-> "Err", ticket |-> <<>>]}

Deliveries == SeqsUpTo(Responses, MaxPerPump)

\* outcome of reqwest's send(): a response with a status, or a transport error
ServerAnswers ==
    {[kind |-> "response", status |-> s] : s \in Statuses}
        \cup {[kind |-> "transport_error", status |-> 0]}
NoAnswer == [kind |-> "none", status |-> 0]

CommandLines == [url : BOOLEAN, email : BOOLEAN, output_file : BOOLEAN, exit : BOOLEAN]

\* ---- hex encoding: format!("{:02x}", byte) over the ticket ----
HexDigits == <<"0", "1", "2", "3", "4", "5", "6", "7",
               "8", "9", "a", "b", "c", "d", "e", "f">>

HexByte(b) == <<HexDigits[(b \div 16) + 1], HexDigits[(b % 16) + 1]>>

RECURSIVE HexEncode(_)
HexEncode(t) == IF t = <<>> THEN <<>> ELSE HexByte(Head(t)) \o HexEncode(Tail(t))

\* ---- Args: the relations declared on the fields ----
\* url requires email, email requires url; output_file and exit conflict
\* with the post_mode group (url, email).  The default of output_file does
\* not count as a use of the flag.  The group post_mode is declared only
\* through the fields' group attribute; it is taken here to admit url and
\* email together, as the doc comment of url says ("must be used together
\* with --email"), so that the RemotePost branch of main is covered.  clap
\* itself is not part of the sources: if its implicit groups admit a single
\* member, every command line with --url is rejected and that branch is
\* never reached.
ArgsAccepted(cl) ==
    /\ cl.url => cl.email
    /\ cl.email => cl.url
    /\ cl.output_file => ~(cl.url \/ cl.email)
    /\ cl.exit => ~(cl.url \/ cl.email)

\* The same relations as clap applies them: url and email are put in the
\* group post_mode by their group attribute alone, and a group that is not
\* declared with multiple(true) admits one member, so that url and email
\* exclude each other although each requires the other.
ArgsAcceptedByClap(cl) ==
    /\ ArgsAccepted(cl)
    /\ ~(cl.url /\ cl.email)

ParsedArgs(cl) == [tag |-> "Args", url |-> cl.url, email |-> cl.email, exit |-> cl.exit]

\* variant of Handler: a failure clears the slot
HandlerClearsOnErr(slot, response) ==
    IF response.result = "Ok" THEN Some(response.ticket) ELSE None

\* ---- the registered callback ----
Handler(slot, response) ==
    IF response.result = "Ok" THEN Some(response.ticket) ELSE slot

RECURSIVE Deliver(_, _)
Deliver(slot, rs) ==
    IF rs = <<>> THEN slot ELSE Deliver(Handler(slot, Head(rs)), Tail(rs))

HasResult(rs, r) == \E i \in 1..Len(rs) : rs[i].result = r

HandlerReports(rs) == IF HasResult(rs, "Err") THEN {"ticket_error"} ELSE {}

\* variant of PostResult: every 2xx status counts as success
PostResultAnySuccess(answer) ==
    IF answer.kind = "response" /\ answer.status \div 100 = 2 THEN "Ok" ELSE "Err"

\* ---- post_ticket_to_url: Ok exactly on a response with status 200 ----
PostResult(answer) ==
    IF answer.kind = "response" /\ answer.status = StatusOk THEN "Ok" ELSE "Err"

PostRequest(ticket) == [email |-> "email", authTicket |-> HexEncode(ticket)]

\* ---- write_ticket_to_file ----
FileLine(ticket) == HexEncode(ticket) \o <<"\n">>

WriteOutcomes == {"ok", "create_err", "write_err"}

Init ==
    /\ argv \in CommandLines
    /\ args = NoArgs
    /\ pc = "parse"
    /\ handler = FALSE
    /\ ticket_data = None
    /\ ticket_received = FALSE
    /\ attempts = 0
    /\ reader = "none"
    /\ exit_code = -1
    /\ exit_via = "none"
    /\ file \in {Absent, Content(<<"o", "l", "d">>)}
    /\ sent = <<>>
    /\ post_response = NoAnswer
    /\ write_outcome = "none"
    /\ reported = {}
    /\ printed = {}
    /\ requests = 0
    /\ iters = 0
    /\ sleeps = 0
    /\ slept_ms = 0
    /\ file_writes = 0
    /\ loop_success = FALSE
    /\ tail_entered = FALSE
    /\ tail_pumped = FALSE
    /\ edition \in Editions
    /\ guard = FALSE
    /\ last_pump_ok = FALSE
    /\ first_success = None
    /\ checks = 0

Terminate(code, via) ==
    /\ pc' = "done"
    /\ exit_code' = code
    /\ exit_via' = via

\* Args::parse(): a rejected command line ends the process in clap
ParseArgs ==
    /\ pc = "parse"
    /\ IF ArgsAccepted(argv)
       THEN /\ args' = ParsedArgs(argv)
            /\ pc' = "init"
            /\ UNCHANGED <<exit_code, exit_via, reported>>
       ELSE /\ Terminate(UsageExitCode, "usage_error")
            /\ reported' = reported \cup {"usage"}
            /\ UNCHANGED args
    /\ UNCHANGED <<argv, handler, ticket_data, ticket_received, attempts, reader,
                   file, sent, post_response, write_outcome, printed, requests,
                   iters, sleeps, slept_ms, file_writes, loop_success,
                   tail_entered, tail_pumped>>
    /\ UNCHANGED <<edition, guard, last_pump_ok, first_success, checks>>

\* Args::parse() with the group post_mode as clap builds it
ParseArgsClap ==
    /\ pc = "parse"
    /\ IF ArgsAcceptedByClap(argv)
       THEN /\ args' = ParsedArgs(argv)
            /\ pc' = "init"
            /\ UNCHANGED <<exit_code, exit_via, reported>>
       ELSE /\ Terminate(UsageExitCode, "usage_error")
            /\ reported' = reported \cup {"usage"}
            /\ UNCHANGED args
    /\ UNCHANGED <<argv, handler, ticket_data, ticket_received, attempts, reader,
                   file, sent, post_response, write_outcome, printed, requests,
                   iters, sleeps, slept_ms, file_writes, loop_success,
                   tail_entered, tail_pumped>>
    /\ UNCHANGED <<edition, guard, last_pump_ok, first_success, checks>>

\* Client::init(): on Err it is reported and main returns
ClientInit(ok) ==
    /\ pc = "init"
    /\ IF ok
       THEN /\ pc' = "register"
            /\ printed' = printed \cup {"initialized"}
            /\ UNCHANGED <<exit_code, exit_via, reported>>
       ELSE /\ Terminate(0, "return")
            /\ reported' = reported \cup {"init_failed"}
            /\ UNCHANGED printed
    /\ UNCHANGED <<argv, args, handler, ticket_data, ticket_received, attempts,
                   reader, file, sent, post_response, write_outcome, requests,
                   iters, sleeps, slept_ms, file_writes, loop_success,
                   tail_entered, tail_pumped>>
    /\ UNCHANGED <<edition, guard, last_pump_ok, first_success, checks>>

\* variant of RegisterCallback: the slot is created but no callback is registered
RegisterCallbackSkipped ==
    /\ pc = "register"
    /\ ticket_data' = None
    /\ pc' = "logged_on"
    /\ UNCHANGED <<argv, args, handler, ticket_received, attempts, reader,
                   exit_code, exit_via, file, sent, post_response, write_outcome,
                   reported, printed, requests, iters, sleeps, slept_ms,
                   file_writes, loop_success, tail_entered, tail_pumped>>
    /\ UNCHANGED <<edition, guard, last_pump_ok, first_success, checks>>

\* the slot is created empty and the callback is registered
RegisterCallback ==
    /\ pc = "register"
    /\ ticket_data' = None
    /\ handler' = TRUE
    /\ pc' = "logged_on"
    /\ UNCHANGED <<argv, args, ticket_received, attempts, reader, exit_code,
                   exit_via, file, sent, post_response, write_outcome, reported,
                   printed, requests, iters, sleeps, slept_ms, file_writes,
                   loop_success, tail_entered, tail_pumped>>
    /\ UNCHANGED <<edition, guard, last_pump_ok, first_success, checks>>

\* variant of CheckLoggedOn: the report is made but main does not return
CheckLoggedOnNoReturn(logged) ==
    /\ pc = "logged_on"
    /\ pc' = "request"
    /\ reported' = IF logged THEN reported ELSE reported \cup {"not_logged_in"}
    /\ UNCHANGED <<argv, args, handler, ticket_data, ticket_received, attempts,
                   reader, exit_code, exit_via, file, sent, post_response,
                   write_outcome, printed, requests, iters, sleeps, slept_ms,
                   file_writes, loop_success, tail_entered, tail_pumped>>
    /\ UNCHANGED <<edition, guard, last_pump_ok, first_success, checks>>

\* user.logged_on(): when false it is reported and main returns
CheckLoggedOn(logged) ==
    /\ pc = "logged_on"
    /\ IF logged
       THEN /\ pc' = "request"
            /\ printed' = printed \cup {"steam_id"}
            /\ UNCHANGED <<exit_code, exit_via, reported>>
       ELSE /\ Terminate(0, "return")
            /\ reported' = reported \cup {"not_logged_in"}
            /\ UNCHANGED printed
    /\ UNCHANGED <<argv, args, handler, ticket_data, ticket_received, attempts,
                   reader, file, sent, post_response, write_outcome,
                   requests, iters, sleeps, slept_ms, file_writes, loop_success,
                   tail_entered, tail_pumped>>
    /\ UNCHANGED <<edition, guard, last_pump_ok, first_success, checks>>

\* authentication_session_ticket_for_webapi, then the loop's locals
RequestTicket ==
    /\ pc = "request"
    /\ requests' = requests + 1
    /\ ticket_received' = FALSE
    /\ attempts' = 0
    /\ pc' = "loop_test"
    /\ UNCHANGED <<argv, args, handler, ticket_data, reader, exit_code, exit_via,
                   file, sent, post_response, write_outcome, reported, printed,
                   iters, sleeps, slept_ms, file_writes, loop_success,
                   tail_entered, tail_pumped>>
    /\ UNCHANGED <<edition, guard, last_pump_ok, first_success, checks>>

\* variant of LoopTest: the budget test is off by one (attempts <= 100)
LoopTestOffByOne ==
    /\ pc = "loop_test"
    /\ pc' = IF ~ticket_received /\ attempts <= MaxAttempts THEN "pump" ELSE "after_loop"
    /\ UNCHANGED <<argv, args, handler, ticket_data, ticket_received, attempts,
                   reader, exit_code, exit_via, file, sent, post_response,
                   write_outcome, reported, printed, requests, iters, sleeps,
                   slept_ms, file_writes, loop_success, tail_entered, tail_pumped>>
    /\ UNCHANGED <<edition, guard, last_pump_ok, first_success, checks>>

\* variant of LoopTest: the slot is checked first, the pump comes after
LoopTestChecksFirst ==
    /\ pc = "loop_test"
    /\ pc' = IF ~ticket_received /\ attempts < MaxAttempts THEN "check" ELSE "after_loop"
    /\ UNCHANGED <<argv, args, handler, ticket_data, ticket_received, attempts,
                   reader, exit_code, exit_via, file, sent, post_response,
                   write_outcome, reported, printed, requests, iters, sleeps,
                   slept_ms, file_writes, loop_success, tail_entered, tail_pumped>>
    /\ UNCHANGED <<edition, guard, last_pump_ok, first_success, checks>>

\* while !ticket_received && attempts < 100
LoopTest ==
    /\ pc = "loop_test"
    /\ pc' = IF ~ticket_received /\ attempts < MaxAttempts THEN "pump" ELSE "after_loop"
    /\ UNCHANGED <<argv, args, handler, ticket_data, ticket_received, attempts,
                   reader, exit_code, exit_via, file, sent, post_response,
                   write_outcome, reported, printed, requests, iters, sleeps,
                   slept_ms, file_writes, loop_success, tail_entered, tail_pumped>>
    /\ UNCHANGED <<edition, guard, last_pump_ok, first_success, checks>>

\* the closure locks ticket_data in its Ok branch only (main.rs:96); the
\* std Mutex is not reentrant, so a lock taken while the main task still
\* holds its guard never returns
HandlerBlocks(rs) == guard /\ HasResult(rs, "Ok")

FirstSuccess(first, rs) ==
    IF first # None \/ ~HasResult(rs, "Ok") THEN first
    ELSE Some(rs[CHOOSE i \in 1..Len(rs) :
                    /\ rs[i].result = "Ok"
                    /\ \A j \in 1..(i - 1) : rs[j].result # "Ok"].ticket)

\* client.run_callbacks() in the acquisition loop
RunCallbacks(rs) ==
    /\ pc = "pump"
    /\ handler
    /\ IF HandlerBlocks(rs)
       THEN /\ pc' = "deadlocked"
            /\ UNCHANGED <<ticket_data, reported, loop_success, iters,
                           last_pump_ok, first_success>>
       ELSE /\ ticket_data' = Deliver(ticket_data, rs)
            /\ reported' = reported \cup HandlerReports(rs)
            /\ loop_success' = (loop_success \/ HasResult(rs, "Ok"))
            /\ last_pump_ok' = HasResult(rs, "Ok")
            /\ first_success' = FirstSuccess(first_success, rs)
            /\ iters' = iters + 1
            /\ pc' = "check"
    /\ UNCHANGED <<argv, args, handler, ticket_received, attempts, reader,
                   exit_code, exit_via, file, sent, post_response, write_outcome,
                   printed, requests, sleeps, slept_ms, file_writes,
                   tail_entered, tail_pumped, edition, guard, checks>>

\* the guard taken by the slot check lives in the then-branch to the end of
\* the if let; in the else-branch it lives on up to edition 2021 and is
\* dropped before the else-branch from edition 2024 on
GuardInElse == edition = 2021

\* variant of CheckSlot: the attempt is counted in the successful iteration too
CheckSlotCountsSuccess ==
    /\ pc = "check"
    /\ checks' = checks + 1
    /\ attempts' = attempts + 1
    /\ IF ticket_data # None
       THEN /\ pc' = IF args.url /\ args.email THEN "post" ELSE "write"
            /\ guard' = TRUE
       ELSE /\ guard' = GuardInElse
            /\ pc' = "sleep"
    /\ UNCHANGED <<argv, args, handler, ticket_data, ticket_received, reader,
                   exit_code, exit_via, file, sent, post_response, write_outcome,
                   reported, printed, requests, iters, sleeps, slept_ms,
                   file_writes, loop_success, tail_entered, tail_pumped,
                   edition, last_pump_ok, first_success>>

\* if let Some(ticket) = ticket_data.lock().unwrap().as_ref() ... else
CheckSlot ==
    /\ pc = "check"
    /\ checks' = checks + 1
    /\ IF ticket_data # None
       THEN /\ pc' = IF args.url /\ args.email THEN "post" ELSE "write"
            /\ guard' = TRUE
            /\ UNCHANGED attempts
       ELSE /\ attempts' = attempts + 1
            /\ guard' = GuardInElse
            /\ pc' = "sleep"
    /\ UNCHANGED <<argv, args, handler, ticket_data, ticket_received, reader,
                   exit_code, exit_via, file, sent, post_response, write_outcome,
                   reported, printed, requests, iters, sleeps, slept_ms,
                   file_writes, loop_success, tail_entered, tail_pumped,
                   edition, last_pump_ok, first_success>>

\* variant of PostTicket: Ok does not exit but falls through like the file branch
PostTicketNoExit(answer) ==
    /\ pc = "post"
    /\ sent' = Append(sent, PostRequest(ticket_data.val))
    /\ post_response' = answer
    /\ IF PostResult(answer) = "Ok"
       THEN /\ printed' = printed \cup {"authenticated"}
            /\ ticket_received' = TRUE
            /\ pc' = "loop_test"
            /\ UNCHANGED <<reported, exit_code, exit_via>>
       ELSE /\ reported' = reported \cup {"post_error"}
            /\ Terminate(PanicExitCode, "panic")
            /\ UNCHANGED <<printed, ticket_received>>
    /\ UNCHANGED <<argv, args, handler, ticket_data, attempts,
                   reader, file, write_outcome, requests, iters, sleeps,
                   slept_ms, file_writes, loop_success, tail_entered, tail_pumped>>
    /\ guard' = FALSE
    /\ UNCHANGED <<edition, last_pump_ok, first_success, checks>>

\* post_ticket_to_url(..).await: Ok exits with 0, Err panics
PostTicket(answer) ==
    /\ pc = "post"
    /\ sent' = Append(sent, PostRequest(ticket_data.val))
    /\ post_response' = answer
    /\ IF PostResult(answer) = "Ok"
       THEN /\ printed' = printed \cup {"authenticated"}
            /\ Terminate(0, "process_exit")
            /\ UNCHANGED reported
       ELSE /\ reported' = reported \cup {"post_error"}
            /\ Terminate(PanicExitCode, "panic")
            /\ UNCHANGED printed
    /\ UNCHANGED <<argv, args, handler, ticket_data, ticket_received, attempts,
                   reader, file, write_outcome, requests, iters, sleeps,
                   slept_ms, file_writes, loop_success, tail_entered, tail_pumped>>
    /\ UNCHANGED <<edition, guard, last_pump_ok, first_success, checks>>

\* what the file holds after write_ticket_to_file ended with this outcome
FileAfter(outcome, ticket, before) ==
    CASE outcome = "ok" -> {Content(FileLine(ticket))}
      [] outcome = "create_err" -> {before}
      [] outcome = "write_err" ->
            {Content(SubSeq(FileLine(ticket), 1, k)) : k \in 0..(Len(FileLine(ticket)) - 1)}

\* variant of WriteTicket: ticket_received is not set, the loop goes on
WriteTicketNoFlag(outcome) ==
    /\ pc = "write"
    /\ file' \in FileAfter(outcome, ticket_data.val, file)
    /\ write_outcome' = outcome
    /\ file_writes' = file_writes + 1
    /\ IF outcome = "ok"
       THEN /\ printed' = printed \cup {"written"}
            /\ UNCHANGED reported
       ELSE /\ reported' = reported \cup {"write_error"}
            /\ UNCHANGED printed
    /\ pc' = "loop_test"
    /\ UNCHANGED <<argv, args, handler, ticket_data, ticket_received, attempts,
                   reader, exit_code, exit_via, sent, post_response, requests,
                   iters, sleeps, slept_ms, loop_success, tail_entered, tail_pumped>>
    /\ guard' = FALSE
    /\ UNCHANGED <<edition, last_pump_ok, first_success, checks>>

\* variant of WriteTicket: ticket_received is set only when the write succeeded
WriteTicketRetry(outcome) ==
    /\ pc = "write"
    /\ file' \in FileAfter(outcome, ticket_data.val, file)
    /\ write_outcome' = outcome
    /\ file_writes' = file_writes + 1
    /\ IF outcome = "ok"
       THEN /\ printed' = printed \cup {"written"}
            /\ UNCHANGED reported
       ELSE /\ reported' = reported \cup {"write_error"}
            /\ UNCHANGED printed
    /\ ticket_received' = (outcome = "ok")
    /\ pc' = "loop_test"
    /\ UNCHANGED <<argv, args, handler, ticket_data, attempts, reader, exit_code,
                   exit_via, sent, post_response, requests, iters, sleeps,
                   slept_ms, loop_success, tail_entered, tail_pumped>>
    /\ guard' = FALSE
    /\ UNCHANGED <<edition, last_pump_ok, first_success, checks>>

\* write_ticket_to_file(..): either result is reported, then ticket_received = true
WriteTicket(outcome) ==
    /\ pc = "write"
    /\ file' \in FileAfter(outcome, ticket_data.val, file)
    /\ write_outcome' = outcome
    /\ file_writes' = file_writes + 1
    /\ IF outcome = "ok"
       THEN /\ printed' = printed \cup {"written"}
            /\ UNCHANGED reported
       ELSE /\ reported' = reported \cup {"write_error"}
            /\ UNCHANGED printed
    /\ ticket_received' = TRUE
    /\ pc' = "loop_test"
    /\ UNCHANGED <<argv, args, handler, ticket_data, attempts, reader, exit_code,
                   exit_via, sent, post_response, requests, iters, sleeps,
                   slept_ms, loop_success, tail_entered, tail_pumped>>
    /\ guard' = FALSE
    /\ UNCHANGED <<edition, last_pump_ok, first_success, checks>>

\* variant of Sleep: the guard of the slot check outlives the suspension
SleepKeepsGuard ==
    /\ pc = "sleep"
    /\ sleeps' = sleeps + 1
    /\ slept_ms' = slept_ms + SleepMillis
    /\ pc' = "loop_test"
    /\ UNCHANGED <<argv, args, handler, ticket_data, ticket_received, attempts,
                   reader, exit_code, exit_via, file, sent, post_response,
                   write_outcome, reported, printed, requests, iters,
                   file_writes, loop_success, tail_entered, tail_pumped>>
    /\ UNCHANGED <<edition, guard, last_pump_ok, first_success, checks>>

\* tokio::time::sleep(100 ms) of an unsuccessful iteration
Sleep ==
    /\ pc = "sleep"
    /\ sleeps' = sleeps + 1
    /\ slept_ms' = slept_ms + SleepMillis
    /\ pc' = "loop_test"
    /\ UNCHANGED <<argv, args, handler, ticket_data, ticket_received, attempts,
                   reader, exit_code, exit_via, file, sent, post_response,
                   write_outcome, reported, printed, requests, iters,
                   file_writes, loop_success, tail_entered, tail_pumped>>
    /\ guard' = FALSE
    /\ UNCHANGED <<edition, last_pump_ok, first_success, checks>>

\* attempts is not read after the loop, and the counts of the loop's pumps,
\* checks and suspensions are complete when it ends: they are cleared on
\* leaving the loop, so that the Session Tail does not carry them along
LoopCountersDropped ==
    /\ attempts' = 0
    /\ iters' = 0
    /\ checks' = 0
    /\ sleeps' = 0
    /\ slept_ms' = 0

\* variant of AfterLoop: the timeout is not reported
AfterLoopNoReport ==
    /\ pc = "after_loop"
    /\ printed' = printed \cup {"session_held"}
    /\ reader' = "waiting"
    /\ tail_entered' = TRUE
    /\ pc' = "tail_pump"
    /\ LoopCountersDropped
    /\ UNCHANGED <<argv, args, handler, ticket_data, ticket_received,
                   exit_code, exit_via, file, sent, post_response, write_outcome,
                   reported, requests, file_writes, loop_success, tail_pumped>>
    /\ UNCHANGED <<edition, guard, last_pump_ok, first_success>>

\* the timeout report, then the stdin thread is spawned
AfterLoop ==
    /\ pc = "after_loop"
    /\ reported' = IF ~ticket_received THEN reported \cup {"timeout"} ELSE reported
    /\ printed' = printed \cup {"session_held"}
    /\ reader' = "waiting"
    /\ tail_entered' = TRUE
    /\ pc' = "tail_pump"
    /\ LoopCountersDropped
    /\ UNCHANGED <<argv, args, handler, ticket_data, ticket_received,
                   exit_code, exit_via, file, sent, post_response, write_outcome,
                   requests, file_writes, loop_success, tail_pumped>>
    /\ UNCHANGED <<edition, guard, last_pump_ok, first_success>>

\* variant of TailPump: the keep-alive pump is followed by the slot check of the loop
TailPumpRechecks(rs) ==
    /\ pc = "tail_pump"
    /\ handler
    /\ ~HandlerBlocks(rs)
    /\ ticket_data' = Deliver(ticket_data, rs)
    /\ reported' = reported \cup HandlerReports(rs)
    /\ last_pump_ok' = HasResult(rs, "Ok")
    /\ first_success' = FirstSuccess(first_success, rs)
    /\ tail_pumped' = TRUE
    /\ iters' = iters + 1
    /\ pc' = "check"
    /\ UNCHANGED <<argv, args, handler, ticket_received, attempts, reader,
                   exit_code, exit_via, file, sent, post_response, write_outcome,
                   printed, requests, sleeps, slept_ms, file_writes,
                   loop_success, tail_entered, edition, guard, checks>>

\* loop { client.run_callbacks(); ... }
TailPump(rs) ==
    /\ pc = "tail_pump"
    /\ handler
    /\ IF HandlerBlocks(rs)
       THEN /\ pc' = "deadlocked"
            /\ UNCHANGED <<ticket_data, reported, tail_pumped, last_pump_ok,
                           first_success>>
       ELSE /\ ticket_data' = Deliver(ticket_data, rs)
            /\ reported' = reported \cup HandlerReports(rs)
            /\ last_pump_ok' = HasResult(rs, "Ok")
            /\ first_success' = FirstSuccess(first_success, rs)
            /\ tail_pumped' = TRUE
            /\ pc' = "tail_sleep"
    /\ UNCHANGED <<argv, args, handler, ticket_received, attempts, reader,
                   exit_code, exit_via, file, sent, post_response, write_outcome,
                   printed, requests, iters, sleeps, slept_ms, file_writes,
                   loop_success, tail_entered, edition, guard, checks>>

\* variant of TailSleep: main returns after one keep-alive cycle
TailSleepReturns ==
    /\ pc = "tail_sleep"
    /\ Terminate(0, "return")
    /\ UNCHANGED <<argv, args, handler, ticket_data, ticket_received, attempts,
                   reader, file, sent, post_response, write_outcome, reported,
                   printed, requests, iters, sleeps, slept_ms, file_writes,
                   loop_success, tail_entered, tail_pumped>>
    /\ UNCHANGED <<edition, guard, last_pump_ok, first_success, checks>>

\* loop { ...; sleep(100 ms).await }
TailSleep ==
    /\ pc = "tail_sleep"
    /\ pc' = "tail_pump"
    /\ UNCHANGED <<argv, args, handler, ticket_data, ticket_received, attempts,
                   reader, exit_code, exit_via, file, sent, post_response,
                   write_outcome, reported, printed, requests, iters, sleeps,
                   slept_ms, file_writes, loop_success, tail_entered, tail_pumped>>
    /\ UNCHANGED <<edition, guard, last_pump_ok, first_success, checks>>

\* the stdin thread: read_line returns Ok (a line or end of input), exit(0)
ReaderInput ==
    /\ reader = "waiting"
    /\ pc # "done"
    /\ Terminate(0, "stdin")
    /\ UNCHANGED <<argv, args, handler, ticket_data, ticket_received, attempts,
                   reader, file, sent, post_response, write_outcome, reported,
                   printed, requests, iters, sleeps, slept_ms, file_writes,
                   loop_success, tail_entered, tail_pumped>>
    /\ UNCHANGED <<edition, guard, last_pump_ok, first_success, checks>>

\* the stdin thread: read_line returns Err, unwrap() panics in that thread only
ReaderError ==
    /\ reader = "waiting"
    /\ pc # "done"
    /\ reader' = "panicked"
    /\ UNCHANGED <<argv, args, pc, handler, ticket_data, ticket_received, attempts,
                   exit_code, exit_via, file, sent, post_response, write_outcome,
                   reported, printed, requests, iters, sleeps, slept_ms,
                   file_writes, loop_success, tail_entered, tail_pumped>>
    /\ UNCHANGED <<edition, guard, last_pump_ok, first_success, checks>>

Next ==
    \/ ParseArgs
    \/ \E ok \in BOOLEAN : ClientInit(ok)
    \/ RegisterCallback
    \/ \E logged \in BOOLEAN : CheckLoggedOn(logged)
    \/ RequestTicket
    \/ LoopTest
    \/ \E rs \in Deliveries : RunCallbacks(rs)
    \/ CheckSlot
    \/ \E answer \in ServerAnswers : PostTicket(answer)
    \/ \E outcome \in WriteOutcomes : WriteTicket(outcome)
    \/ Sleep
    \/ AfterLoop
    \/ \E rs \in Deliveries : TailPump(rs)
    \/ TailSleep
    \/ ReaderInput
    \/ ReaderError

Spec == Init /\ [][Next]_vars

\* The process with the command line parsed as clap parses it.  No accepted
\* command line carries url and email, so the RemotePost branch is not
\* reached and PostTicket is no step of this specification.
CliNext ==
    \/ ParseArgsClap
    \/ \E ok \in BOOLEAN : ClientInit(ok)
    \/ RegisterCallback
    \/ \E logged \in BOOLEAN : CheckLoggedOn(logged)
    \/ RequestTicket
    \/ LoopTest
    \/ \E rs \in Deliveries : RunCallbacks(rs)
    \/ CheckSlot
    \/ \E outcome \in WriteOutcomes : WriteTicket(outcome)
    \/ Sleep
    \/ AfterLoop
    \/ \E rs \in Deliveries : TailPump(rs)
    \/ TailSleep
    \/ ReaderInput
    \/ ReaderError

CliSpec == Init /\ [][CliNext]_vars

TypeOK ==
    /\ argv \in CommandLines
    /\ pc \in {"parse", "init", "register", "logged_on", "request", "loop_test",
               "pump", "check", "post", "write", "sleep", "after_loop",
               "tail_pump", "tail_sleep", "done", "deadlocked"}
    /\ guard \in BOOLEAN
    /\ edition \in Editions
    /\ first_success \in {None} \cup {Some(t) : t \in Tickets}
    /\ ticket_data \in {None} \cup {Some(t) : t \in Tickets}
    /\ attempts \in 0..MaxAttempts
    /\ reader \in {"none", "waiting", "panicked"}
    /\ exit_code \in {-1, 0, UsageExitCode, PanicExitCode}

\* ---- properties ----

PostMode == args # NoArgs /\ args.url /\ args.email

\* C1: once the Ticket Slot is populated its value never changes again: a
\* later success notification does not overwrite it.
TicketSlotWrittenOnce == [][ticket_data # None => ticket_data' = ticket_data]_vars

\* C2: with --exit, a successful file write ends the process with code 0
\* right after the write; the Session Tail is never entered (no stdin
\* reader, no keep-alive pump).
ExitFlagSkipsSessionTail ==
    (args # NoArgs /\ args.exit /\ write_outcome = "ok")
        => /\ pc = "done"
           /\ exit_code = 0
           /\ ~tail_entered
           /\ ~tail_pumped
           /\ reader = "none"

\* C3: the Acquisition Loop pumps at most 100 times, and every iteration
\* whose slot check found None is followed by exactly one 100 ms
\* suspension before the next pump.
AcquisitionLoopBounded ==
    /\ iters <= MaxAttempts
    /\ attempts <= MaxAttempts
    /\ slept_ms = SleepMillis * sleeps
    /\ sleeps = IF pc = "sleep" THEN attempts - 1 ELSE attempts
    /\ pc = "pump" => (iters = attempts /\ iters = sleeps)
    /\ pc \in {"check", "post", "write"} => iters = attempts + 1
    /\ pc = "sleep" => iters = attempts

AcquisitionLoopExhausted ==
    /\ pc = "after_loop"
    /\ ~ticket_received
    /\ iters = MaxAttempts
    /\ sleeps = MaxAttempts

\* C4: when no success is delivered during the 100 pumps of the loop, the
\* loop ends in the timeout outcome: the timeout is reported, nothing is
\* posted or written, and the Session Tail is entered and keeps pumping
\* until the stdin thread ends the process.
TimeoutSkipsDispatch ==
    /\ (pc = "after_loop" /\ ~loop_success) => (iters = MaxAttempts /\ ~ticket_received)
    /\ (tail_entered /\ ~loop_success)
          => /\ "timeout" \in reported
             /\ sent = <<>>
             /\ file_writes = 0
             /\ write_outcome = "none"
             /\ pc \in {"tail_pump", "tail_sleep", "done"}
             /\ pc = "tail_sleep" => tail_pumped
             /\ pc = "done" => (exit_via = "stdin" /\ exit_code = 0)

TimeoutThenKeepAlive ==
    /\ ~loop_success
    /\ "timeout" \in reported
    /\ tail_pumped
    /\ pc = "tail_pump"

\* C5: a run dispatches at most once and to one sink: a POST only when both
\* url and email were given, a file write only otherwise.
OneDispatchOneSink ==
    /\ Len(sent) + file_writes <= 1
    /\ Len(sent) = 1 => PostMode
    /\ file_writes = 1 => (args # NoArgs /\ ~PostMode)
    /\ (ticket_received \/ (pc = "done" /\ exit_via \in {"process_exit", "panic"}))
          => Len(sent) + file_writes = 1

FileDispatched ==
    /\ file_writes = 1
    /\ write_outcome = "ok"
    /\ sent = <<>>
    /\ tail_pumped

\* C6: a POST answered with status 200 ends the process at once with code
\* 0; no file is written and the Session Tail is not entered.
PostOkExits ==
    (post_response.kind = "response" /\ post_response.status = StatusOk)
        => /\ pc = "done"
           /\ exit_code = 0
           /\ exit_via = "process_exit"
           /\ "authenticated" \in printed
           /\ file_writes = 0
           /\ write_outcome = "none"
           /\ ~tail_entered
           /\ reader = "none"

PostAnswered200 ==
    /\ post_response = [kind |-> "response", status |-> StatusOk]
    /\ Len(sent) = 1
    /\ pc = "done"

\* C7: a POST answered with another status, or failing in transport, ends
\* the process abnormally: one POST only, no file written, no success
\* printed, no Session Tail.
PostFailureAborts ==
    (post_response.kind # "none"
        /\ ~(post_response.kind = "response" /\ post_response.status = StatusOk))
        => /\ pc = "done"
           /\ exit_code = PanicExitCode
           /\ exit_via = "panic"
           /\ "post_error" \in reported
           /\ "authenticated" \notin printed
           /\ Len(sent) = 1
           /\ file_writes = 0
           /\ write_outcome = "none"
           /\ ~tail_entered
           /\ reader = "none"

PostAnsweredOtherStatus ==
    /\ post_response.kind = "response"
    /\ post_response.status # StatusOk
    /\ pc = "done"

\* C8: the exit code is non-zero when the provider initialisation fails,
\* when the user is not logged in and when the POST fails; exit code 0
\* comes only from the explicit success exits.
FailureExitsNonZero ==
    pc = "done"
        => /\ (reported \cap {"init_failed", "not_logged_in", "post_error"} # {})
                 => exit_code # 0
           /\ exit_code = 0 => exit_via \in {"process_exit", "stdin"}

\* C9: after a failed provider initialisation or a failed logged-in check
\* the process has ended and nothing else happened: no ticket request, no
\* pump, no POST, no file write, no Session Tail.
EarlyFailureNoAction ==
    (reported \cap {"init_failed", "not_logged_in"} # {})
        => /\ pc = "done"
           /\ requests = 0
           /\ iters = 0
           /\ ~tail_pumped
           /\ ticket_data = None
           /\ sent = <<>>
           /\ file_writes = 0
           /\ write_outcome = "none"
           /\ ~tail_entered
           /\ reader = "none"

NotLoggedInEnded ==
    /\ "not_logged_in" \in reported
    /\ handler
    /\ pc = "done"

\* C10: a failed file write is reported and is not fatal: no POST, no
\* second write, the loop is left and the run goes on to the Session Tail,
\* where only the stdin thread ends it.
WriteFailureNonFatal ==
    (write_outcome \in {"create_err", "write_err"})
        => /\ "write_error" \in reported
           /\ "written" \notin printed
           /\ sent = <<>>
           /\ file_writes = 1
           /\ ticket_received
           /\ "timeout" \notin reported
           /\ pc \in {"loop_test", "after_loop", "tail_pump", "tail_sleep", "done"}
           /\ pc \in {"tail_pump", "tail_sleep", "done"} => tail_entered
           /\ pc = "done" => (exit_via = "stdin" /\ exit_code = 0)

WriteFailedInSessionTail ==
    /\ write_outcome \in {"create_err", "write_err"}
    /\ tail_pumped
    /\ pc = "tail_sleep"

\* C11: once the Session Tail is entered, the main task only alternates
\* between the pump and the 100 ms suspension; the process ends only when
\* the stdin thread's read returns, and then with exit code 0.
SessionTailEndsOnInputOnly ==
    [][tail_entered =>
          /\ pc = "tail_pump" => pc' \in {"tail_pump", "tail_sleep", "done"}
          /\ pc = "tail_sleep" => pc' \in {"tail_sleep", "tail_pump", "done"}
          /\ pc = "done" => pc' = "done"
          /\ (pc # "done" /\ pc' = "done")
                => (reader = "waiting" /\ exit_via' = "stdin" /\ exit_code' = 0)]_vars

SessionEndedByInput ==
    /\ tail_entered
    /\ tail_pumped
    /\ pc = "done"
    /\ exit_via = "stdin"
    /\ exit_code = 0

\* C12: a pump that delivers no success leaves the Ticket Slot as it was,
\* and no pump (whatever the handler receives) posts or writes the file.
PumpStep == pc \in {"pump", "tail_pump"} /\ pc' \in {"check", "tail_sleep"}

HandlerFailureKeepsSlot ==
    [][PumpStep =>
          /\ ~last_pump_ok' => ticket_data' = ticket_data
          /\ UNCHANGED <<sent, file, file_writes, post_response, write_outcome>>]_vars

FailureLeftSlotPopulated ==
    /\ "ticket_error" \in reported
    /\ ~last_pump_ok
    /\ ticket_data # None
    /\ pc = "tail_sleep"

\* C14: the callback is registered before the single ticket request, the
\* request is issued only after the logged-in check passed, and every pump
\* comes after the request, with the callback registered.
StartupOrder ==
    /\ requests <= 1
    /\ requests = 1
          => /\ handler
             /\ "steam_id" \in printed
             /\ "not_logged_in" \notin reported
             /\ pc \notin {"parse", "init", "register", "logged_on", "request"}
    /\ pc \in {"loop_test", "pump", "check", "post", "write", "sleep",
               "after_loop", "tail_pump", "tail_sleep"} => requests = 1
    /\ (iters > 0 \/ tail_pumped \/ loop_success \/ ticket_data # None
           \/ first_success # None) => (requests = 1 /\ handler)
    /\ pc \in {"pump", "tail_pump"} => handler

FirstPumpAfterRequest ==
    /\ pc = "check"
    /\ iters = 1
    /\ requests = 1
    /\ handler

\* C13: the command lines with --output-file or --exit next to --url or
\* --email, with --url alone and with --email alone are rejected before the
\* provider is initialised and before any effect; --url with --email is
\* accepted and selects RemotePost.
InvalidFlags(cl) ==
    \/ (cl.output_file \/ cl.exit) /\ (cl.url \/ cl.email)
    \/ cl.url /\ ~cl.email
    \/ cl.email /\ ~cl.url

CliRejectsInvalidAcceptsPostMode ==
    pc # "parse"
        => /\ InvalidFlags(argv)
                 => /\ args = NoArgs
                    /\ pc = "done"
                    /\ exit_via = "usage_error"
                    /\ ~handler
                    /\ requests = 0
                    /\ sent = <<>>
                    /\ file_writes = 0
           /\ (argv.url /\ argv.email /\ ~argv.output_file /\ ~argv.exit)
                 => (args # NoArgs /\ args.url /\ args.email /\ exit_via # "usage_error")

\* C15: a success delivered by the k-th pump of the loop (k from 1 to 100)
\* is dispatched in that iteration: the attempt counter is not incremented,
\* there is no suspension and no further pump in the loop, and no timeout is
\* reported, also when k = 100.
SuccessDispatchedSameIteration ==
    loop_success
        => /\ "timeout" \notin reported
           /\ ticket_data # None
           /\ pc \notin {"pump", "sleep"}
           /\ pc \in {"check", "post", "write", "loop_test", "after_loop"}
                 => /\ iters \in 1..MaxAttempts
                    /\ attempts = iters - 1
                    /\ sleeps = iters - 1
           /\ pc \in {"loop_test", "after_loop"} => ticket_received
           /\ pc \notin {"check", "post", "write"} => Len(sent) + file_writes = 1

DispatchedOnLastPump ==
    /\ loop_success
    /\ pc = "after_loop"
    /\ iters = MaxAttempts
    /\ attempts = MaxAttempts - 1
    /\ file_writes = 1
    /\ ticket_received

\* C16: the Ticket Slot never holds an empty ticket, and the ticket handed
\* to the dispatch is never empty.
SlotNeverHoldsEmptyTicket ==
    /\ ticket_data # None => ticket_data.val # <<>>
    /\ Len(sent) >= 1 => sent[1].authTicket # <<>>
    /\ write_outcome = "ok" => file # Content(<<"\n">>)

\* C17: every slot check of the loop follows exactly one pump of the same
\* iteration: the checks never run ahead of the pumps, and no pump goes
\* unchecked.
SlotReadFollowsPump ==
    /\ checks <= MaxAttempts
    /\ IF pc = "check" THEN iters = checks + 1 ELSE iters = checks

SecondCheckAfterSecondPump ==
    /\ pc = "check"
    /\ iters = 2
    /\ checks = 1

\* C18 as stated: the guard is held through the dispatch and through the
\* suspension of an unsuccessful iteration, is released before every pump,
\* and the handler never blocks.
GuardHeldThroughSleep ==
    /\ pc \in {"post", "write"} => guard
    /\ pc = "sleep" => guard
    /\ pc \in {"pump", "tail_pump"} => ~guard
    /\ pc # "deadlocked"

\* C18 as amended: the guard is held through the dispatch; through the
\* suspension it is held in a build of edition 2021 and already dropped in
\* a build of edition 2024; in both it is released before every pump of the
\* loop and of the Session Tail, so the handler's lock never blocks.
GuardReleasedBeforePump ==
    /\ pc \in {"post", "write"} => guard
    /\ pc = "sleep" => (guard <=> edition = 2021)
    /\ pc \in {"loop_test", "pump", "check", "after_loop", "tail_pump", "tail_sleep"}
          => ~guard
    /\ pc # "deadlocked"

HandlerRanAfterGuardDropped ==
    /\ edition = 2021
    /\ iters = 2
    /\ sleeps = 1
    /\ loop_success
    /\ pc = "write"
    /\ guard

\* C19: after the timeout nothing is ever dispatched: the run stays in the
\* Session Tail, where the slot is not read, also when a later pump
\* populates it.
TimeoutNeverDispatches ==
    "timeout" \in reported
        => /\ sent = <<>>
           /\ post_response = NoAnswer
           /\ file_writes = 0
           /\ write_outcome = "none"
           /\ "written" \notin printed
           /\ "authenticated" \notin printed
           /\ checks = 0
           /\ pc \in {"tail_pump", "tail_sleep", "done"}

LateTicketNotDispatched ==
    /\ "timeout" \in reported
    /\ ticket_data # None
    /\ last_pump_ok
    /\ pc = "tail_sleep"
    /\ sent = <<>>
    /\ file_writes = 0

\* C20: what is posted or written is the ticket of the first success
\* delivered in the run, and there is one dispatch at most.
DispatchesFirstSuccess ==
    /\ Len(sent) + file_writes <= 1
    /\ Len(sent) = 1 => sent[1].authTicket = HexEncode(first_success.val)
    /\ write_outcome = "ok" => file = Content(FileLine(first_success.val))

====
